---- MODULE Spec2Model ----
(***************************************************************************)
(* ScaleODM control plane: the metadata store (app/meta/job.go), the       *)
(* NodeODM task handlers (app/api) and the workflow engine they drive.     *)
(*                                                                         *)
(* A task is known under its workflow name (the NodeODM uuid).  The store  *)
(* holds one row per task, the engine holds one workflow object per task.  *)
(* Every SQL statement of the store is keyed on workflow_name, so rows do  *)
(* not interact.                                                           *)
(***************************************************************************)
EXTENDS Naturals, FiniteSets, Sequences, TLC

\* ------------------------------------------------------------------ bounds

\* Number of workflow names the engine hands out (names are never reused).
MaxTasks == 1

\* Largest value of the database clock NOW().
MaxTime == 3

Names == 1..MaxTasks

\* Number of rows the callers of the store work on in ClusterSpec.
MaxJobs == 2

JobNames == 1..MaxJobs

\* The workflow names a row can have.
RowNames == Names \cup JobNames

\* Number of rows the callers of the store work on in StoreSpec.
MaxRows == 1

StoreNames == {w \in Names : w <= MaxRows}

\* ----------------------------------------------------------- program values

NULL == "NULL"

\* NodeODM status codes.
StatusCodeQueued == 10
StatusCodeRunning == 20
StatusCodeFailed == 30
StatusCodeCompleted == 40
StatusCodeCanceled == 50

\* job_status values the CHECK constraint of scaleodm_job_metadata admits.
JobStatuses == {"pending", "claimed", "running", "failed", "completed"}

\* The statuses the callers of ClusterSpec and MetadataSpec move their rows to.
ClusterStatuses == {"claimed", "running", "completed"}

\* job_status DEFAULT of scaleodm_job_metadata.
DefaultJobStatus == "pending"

\* Phases of an Argo workflow object; NoWf: no object under that name.
NoWf == "NoWf"
Phases == {"Pending", "Running", "Succeeded", "Failed", "Error"}
TerminalPhases == {"Succeeded", "Failed", "Error"}

\* status.message of a workflow object in phase Failed or Error.
EngineMessage == "engine-message"

\* Error messages a caller of the store passes (nil or a string).
ErrorMessages == {NULL, "error"}

\* A metadata row; present = FALSE stands for "no row under that name".
\* The cluster this instance runs on (SCALEODM_CLUSTER_URL) and another one.
LocalClusterURL == "http://localhost:31100"
ClusterURLs == {LocalClusterURL, "http://remote:31100"}

\* The metadata column: a JSON object, held as a function from its keys to
\* their values, "" for a key the object does not have (NULL: no key at all).
MetadataKeys == {"namespace", "uid", "progress"}
NoMetadata == [k \in MetadataKeys |-> ""]

\* The maps a caller passes to UpdateJobMetadata.
MetadataValues == {"", "value"}
MetadataInputs == [MetadataKeys -> MetadataValues]

NoRow ==
    [present |-> FALSE, cluster_url |-> "", job_status |-> "", started_at |-> 0,
     completed_at |-> 0, error_message |-> NULL, metadata |-> NoMetadata]

\* Column defaults of scaleodm_clusters.
DefaultMaxConcurrentJobs == 10
DefaultPriorityWeighting == 10

\* The row InitLocalClusterRecord and UpdateClusterHeartbeat insert at time t.
InsertedCluster(t) ==
    [present |-> TRUE, max_concurrent_jobs |-> DefaultMaxConcurrentJobs,
     priority_weighting |-> DefaultPriorityWeighting, last_heartbeat |-> t]

\* A row of scaleodm_clusters; present = FALSE stands for "no such cluster".
NoCluster ==
    [present |-> FALSE, max_concurrent_jobs |-> 0, priority_weighting |-> 0,
     last_heartbeat |-> 0]

\* The options field of a request: absent, or a string that is or is not the
\* JSON of an array of {name, value} options.
NoOptions == [set |-> FALSE, json |-> TRUE, options |-> <<>>]
BadOptions == [set |-> TRUE, json |-> FALSE, options |-> <<>>]
OneOption ==
    [set |-> TRUE, json |-> TRUE, options |-> <<[name |-> "dsm", value |-> "true"]>>]
OptionsInputs == {NoOptions, BadOptions, OneOption}

\* Paths, held as the sequence of their parts; <<>> is the empty string.
ReadS3Paths == {<<>>, <<"s3://", "bucket", "/">>, <<"bucket", "/">>}
WriteS3Paths == {<<>>, <<"s3://", "out">>, <<"out">>}
ZipURLs == {<<>>, <<"s3://", "bucket">>, <<"https://", "x.zip">>, <<"ftp://", "x.zip">>}

NoTaskNewRequest ==
    [options |-> NoOptions, readS3Path |-> <<>>, writeS3Path |-> <<>>,
     zipurl |-> <<>>, s3Keys |-> FALSE]

\* Bodies of POST /task/new: clients of the current API send readS3Path (some
\* with a writeS3Path or a stray zipurl), legacy clients send zipurl alone, and
\* either kind may send options and a key pair.
NewAPIBodies ==
    {[NoTaskNewRequest EXCEPT !.readS3Path = r, !.writeS3Path = wr, !.zipurl = z] :
        r \in ReadS3Paths \ {<<>>}, wr \in WriteS3Paths,
        z \in {<<>>, <<"https://", "x.zip">>}}
LegacyBodies == {[NoTaskNewRequest EXCEPT !.zipurl = z] : z \in ZipURLs}
OptionBodies ==
    {[NoTaskNewRequest EXCEPT !.readS3Path = <<"s3://", "bucket", "/">>,
                              !.options = o] : o \in OptionsInputs}
TaskNewRequests ==
    {[b EXCEPT !.s3Keys = k] :
        b \in NewAPIBodies \cup LegacyBodies \cup OptionBodies, k \in BOOLEAN}

\* Largest number of trailing slashes a client puts on a path.
MaxSlashes == 2

\* k times "/".
Slashes(k) == [i \in 1..k |-> "/"]

\* Bodies of POST /task/new whose paths end in 0..MaxSlashes slashes: a
\* readS3Path with or without a writeS3Path, or a legacy zipurl.
SlashBodies ==
    {[NoTaskNewRequest EXCEPT !.readS3Path = <<"s3://", "bucket">> \o Slashes(k),
                              !.writeS3Path = wr, !.s3Keys = s] :
        k \in 0..MaxSlashes, wr \in {<<>>, <<"s3://", "out", "/">>},
        s \in BOOLEAN}
    \cup
    {[NoTaskNewRequest EXCEPT !.zipurl = <<"s3://", "bucket">> \o Slashes(k),
                              !.s3Keys = s] :
        k \in 0..MaxSlashes, s \in BOOLEAN}

\* The containers of the workflow's container set.
Containers == {"download", "process", "upload", "cleanup"}

\* No environment on any container.
NoEnv == [c \in Containers |-> {}]

\* An ODMPipelineConfig as far as the environment goes; hasCreds = FALSE is
\* S3Credentials == nil, "" an empty string.
NoODMConfig ==
    [hasCreds |-> FALSE, accessKeyID |-> "", secretAccessKey |-> "",
     sessionToken |-> "", region |-> "", endpoint |-> ""]

\* The configurations clients hand to CreateODMWorkflow.
ODMConfigs ==
    {[NoODMConfig EXCEPT !.region = r, !.endpoint = ep] :
        r \in {"", "us-east-1"}, ep \in {"", "http://minio:9000"}}
    \cup
    {[hasCreds |-> TRUE, accessKeyID |-> "test-key",
      secretAccessKey |-> "test-secret", sessionToken |-> t, region |-> r,
      endpoint |-> ep] :
        t \in {"", "test-session-token"}, r \in {"", "us-east-1"},
        ep \in {"", "http://minio:9000"}}

\* No response: the step just taken was not the return of a handler.
NoResp ==
    [op |-> "none", uuid |-> 0, code |-> 0, status |-> 0, dbErr |-> FALSE,
     engineUp |-> TRUE, req |-> NoTaskNewRequest, creds |-> "", found |-> FALSE,
     phase |-> NoWf, job_status |-> "", cluster |-> "", metadata |-> NoMetadata,
     maxJobs |-> 0, activeJobs |-> 0, config |-> NoODMConfig, env |-> NoEnv,
     flags |-> <<>>]

NoReq == [uuid |-> 0, phase |-> NoWf]

\* The error values of a database call: a message as its words, <<>> for nil.
NoError == <<>>
CtxErr == <<"context", "canceled">>
FnErrors ==
    {<<"ERROR:", "deadlock", "detected", "(SQLSTATE", "40P01)">>,
     <<"deadlock", "detected">>, <<"SQLSTATE", "40P01">>,
     <<"duplicate", "key">>, <<"connection", "refused">>, CtxErr}

\* Largest maxRetries retryOnDeadlock is called with; CreateJob passes 3.
MaxRetries == 3

\* No call of retryOnDeadlock: pc is the caller's position, i the loop
\* counter, calls the number of invocations of fn so far, succeeded whether
\* one of them returned nil, cancelled whether ctx.Done() is closed.
NoRetry ==
    [pc |-> "idle", maxRetries |-> 0, i |-> 0, calls |-> 0, lastErr |-> NoError,
     result |-> NoError, cancelled |-> FALSE, succeeded |-> FALSE]

\* No call of WatchWorkflow: pc is the caller's position, wf the phase of the
\* workflow returned (NoWf for nil), err the error returned ("" for nil), at
\* the return point the call left by, cancelled whether ctx.Done() is closed,
\* open the number of watchers the call has opened and not stopped.
NoWatch ==
    [pc |-> "idle", uuid |-> 0, wf |-> NoWf, err |-> "", at |-> "",
     cancelled |-> FALSE, open |-> 0]

\* Number of watchers one call of WatchWorkflow is followed up to.
MaxWatchers == 2

\* Number of control-plane replicas that start against one database.
MaxReplicas == 3

Replicas == 1..MaxReplicas

\* No replica has called InitSchema and the database is empty: pc is each
\* replica's position, result what its call returned, holder the replica
\* whose session holds advisory lock 123456 (0: free), pending the replica
\* whose transaction has run schema.sql and is not over (0: none), tables
\* whether the tables are committed, faulted whether a statement has failed
\* for a reason other than an object that exists.
NoSchemaInit ==
    [pc |-> [r \in Replicas |-> "idle"], result |-> [r \in Replicas |-> "none"],
     holder |-> 0, pending |-> 0, tables |-> FALSE, faulted |-> FALSE]

\* No restart in flight.
NoRestart == [uuid |-> 0, found |-> FALSE]

VARIABLES
    rows,       \* scaleodm_job_metadata: workflow name -> row
    engine,     \* the engine's workflow objects: workflow name -> phase or NoWf
    nextName,   \* number of names the engine has generated
    now,        \* the database clock NOW(); timestamp 0 is SQL NULL
    cancelReq,  \* POST /task/cancel between its engine delete and its store write
    jobReq,     \* get-job between its engine fetch and its store writes
    canceled,   \* uuids for which POST /task/cancel has returned success
    removeReq,  \* POST /task/remove between its engine delete and its store delete
    restartReq, \* POST /task/restart between its store lookup and its engine delete
    removed,    \* uuids for which POST /task/remove has returned success
    clusters,   \* scaleodm_clusters: cluster_url -> row
    retry,      \* a call of retryOnDeadlock
    watch,      \* a call of WatchWorkflow
    schemaInit, \* the replicas' calls of InitSchema and the database they share
    resp        \* the response returned by the step just taken

vars ==
    <<rows, engine, nextName, now, cancelReq, jobReq, canceled, removeReq,
      restartReq, removed, clusters, retry, watch, schemaInit, resp>>

\* -------------------------------------------------------------- the store

\* The row INSERTed by CreateJob: every column not named takes its DEFAULT.
InsertedRow ==
    [present |-> TRUE, cluster_url |-> LocalClusterURL,
     job_status |-> DefaultJobStatus, started_at |-> 0, completed_at |-> 0,
     error_message |-> NULL, metadata |-> NoMetadata]

\* UpdateJobStatus without the "started_at IS NULL" and "completed_at IS NULL"
\* guards of its CASE expressions.
UpdateJobStatus_Overwrite(row, status, errorMsg, t) ==
    [row EXCEPT
        !.job_status = status,
        !.started_at = IF status = "running" THEN t ELSE row.started_at,
        !.completed_at =
            IF status \in {"completed", "failed"} THEN t ELSE row.completed_at,
        !.error_message = errorMsg]

\* UpdateJobStatus with timestamps that follow the latest call: NOW() whenever
\* the status written calls for the timestamp.
UpdateJobStatus_Restamp(row, status, errorMsg, t) ==
    [row EXCEPT
        !.job_status = status,
        !.started_at = IF status = "running" THEN t ELSE row.started_at,
        !.completed_at =
            IF status \in {"completed", "failed"} THEN t ELSE row.completed_at,
        !.error_message = errorMsg]

\* The SET clause of UpdateJobStatus applied to one row at time t.
UpdateJobStatus(row, status, errorMsg, t) ==
    [row EXCEPT
        !.job_status = status,
        !.started_at =
            IF status = "running" /\ row.started_at = 0 THEN t ELSE row.started_at,
        !.completed_at =
            IF status \in {"completed", "failed"} /\ row.completed_at = 0
            THEN t ELSE row.completed_at,
        !.error_message = errorMsg]

\* The statement fails when a row matches and the new job_status breaks CHECK.
UpdateJobStatusFails(rs, w, status) ==
    rs[w].present /\ status \notin JobStatuses

\* The table after Store.UpdateJobStatus(w, status, errorMsg) at time t; dbOk
\* is FALSE when Exec itself fails (connection lost, context cancelled).
ExecUpdateJobStatus(rs, w, status, errorMsg, t, dbOk) ==
    IF dbOk /\ rs[w].present /\ status \in JobStatuses
    THEN [rs EXCEPT ![w] = UpdateJobStatus(rs[w], status, errorMsg, t)]
    ELSE rs

\* The table after Store.UpdateJobMetadata(w, metadata): SET metadata = $2.
ExecUpdateJobMetadata(rs, w, metadata, dbOk) ==
    IF dbOk /\ rs[w].present
    THEN [rs EXCEPT ![w].metadata = metadata]
    ELSE rs

\* Store.DeleteJob returns an error when Exec fails or no row was affected.
DeleteJobFails(rs, w, dbOk) == ~dbOk \/ ~rs[w].present

\* The table after Store.DeleteJob(w).
ExecDeleteJob(rs, w, dbOk) ==
    IF dbOk THEN [rs EXCEPT ![w] = NoRow] ELSE rs

\* fk_job_queue_cluster without its check, as if the constraint was not there.
ForeignKeyHolds_Unchecked(cl, c) == TRUE

\* fk_job_queue_cluster: FOREIGN KEY (cluster_url) REFERENCES scaleodm_clusters.
\* The statement that adds it names its table scaleodm_job_queue; the table
\* with a cluster_url column that schema.sql creates is scaleodm_job_metadata,
\* and the constraint is read as a constraint of that table.
ForeignKeyHolds(cl, c) == cl[c].present

\* Store.CreateJob(c, w, ...) fails: the statement fails, workflow_name is
\* taken (UNIQUE) or cluster_url names no cluster.
CreateJobFails(rs, cl, c, w, dbOk) ==
    ~dbOk \/ rs[w].present \/ ~ForeignKeyHolds(cl, c)

\* The table after Store.CreateJob(c, w, ...).
ExecCreateJobOn(rs, cl, c, w, dbOk) ==
    IF CreateJobFails(rs, cl, c, w, dbOk) THEN rs
    ELSE [rs EXCEPT ![w] = [InsertedRow EXCEPT !.cluster_url = c]]

\* The table after Store.CreateJob(SCALEODM_CLUSTER_URL, w, ...).
ExecCreateJob(rs, w, dbOk) ==
    ExecCreateJobOn(rs, clusters, LocalClusterURL, w, dbOk)

\* scaleodm_clusters after Store.UpdateClusterHeartbeat(c) at time t: an
\* upsert that inserts the defaults or sets last_heartbeat.
ExecUpdateClusterHeartbeat(cl, c, t) ==
    IF cl[c].present THEN [cl EXCEPT ![c].last_heartbeat = t]
    ELSE [cl EXCEPT ![c] = InsertedCluster(t)]

\* InitLocalClusterRecord as an upsert that writes the defaults over the row.
ExecInitLocalClusterRecord_Reset(cl, c, t) ==
    [cl EXCEPT ![c] = InsertedCluster(t)]

\* scaleodm_clusters after DB.InitLocalClusterRecord(c) at time t: the
\* defaults are inserted, ON CONFLICT (cluster_url) DO NOTHING.
ExecInitLocalClusterRecord(cl, c, t) ==
    IF cl[c].present THEN cl ELSE [cl EXCEPT ![c] = InsertedCluster(t)]

\* scaleodm_clusters after Store.UpdateClusterDetails(c, maxJobs, weighting)
\* at time t: an upsert of the two values and of last_heartbeat.
ExecUpdateClusterDetails(cl, c, maxJobs, priorityWeighting, t) ==
    [cl EXCEPT ![c] = [present |-> TRUE, max_concurrent_jobs |-> maxJobs,
                       priority_weighting |-> priorityWeighting,
                       last_heartbeat |-> t]]

\* The statuses every status counts as active, as if the join had no filter.
ActiveStatuses_All == JobStatuses

\* j.job_status IN ('claimed', 'running') of GetClusterCapacity's join.
ActiveStatuses == {"claimed", "running"}

\* Store.GetClusterCapacity(c): the cluster row LEFT JOINed with its active
\* rows, COUNT(j.id) per cluster row; no cluster row is "cluster not found".
GetClusterCapacity(rs, cl, c) ==
    [found |-> cl[c].present,
     maxJobs |-> IF cl[c].present THEN cl[c].max_concurrent_jobs ELSE 0,
     activeJobs |->
        IF cl[c].present
        THEN Cardinality({w \in DOMAIN rs :
                            /\ rs[w].present
                            /\ rs[w].cluster_url = c
                            /\ rs[w].job_status \in ActiveStatuses})
        ELSE 0]

MapArgoPhaseToJobStatus(phase) ==
    CASE phase = "Pending" -> "pending"
      [] phase = "Running" -> "running"
      [] phase = "Succeeded" -> "completed"
      [] phase \in {"Failed", "Error"} -> "failed"
      [] OTHER -> "pending"

\* ----------------------------------------------------------- the handlers

jobStatusToStatusCode(status) ==
    CASE status \in {"pending", "claimed"} -> StatusCodeQueued
      [] status = "running" -> StatusCodeRunning
      [] status = "completed" -> StatusCodeCompleted
      [] status = "failed" -> StatusCodeFailed
      [] OTHER -> StatusCodeQueued

workflowToStatusCode(phase) ==
    CASE phase = "Pending" -> StatusCodeQueued
      [] phase = "Running" -> StatusCodeRunning
      [] phase = "Succeeded" -> StatusCodeCompleted
      [] phase \in {"Failed", "Error"} -> StatusCodeFailed
      [] OTHER -> StatusCodeQueued

\* Outcome of Client.DeleteWorkflow: the engine's answer, wrapped.
DeleteWorkflowResult(wf, up) ==
    IF ~up THEN "error" ELSE IF wf = NoWf THEN "not found" ELSE "ok"

\* Outcome of Client.GetWorkflow.
GetWorkflowResult(wf, up) ==
    IF ~up THEN "error" ELSE IF wf = NoWf THEN "not found" ELSE "ok"

\* A handler that answers success when the engine has no such object.
EngineErrorCode_NotFoundIsSuccess(err) ==
    IF err = "error" THEN 500 ELSE 200

\* HTTP code of a handler that treats the engine error err as cancel does.
EngineErrorCode(err) ==
    IF err = "ok" THEN 200 ELSE IF err = "not found" THEN 404 ELSE 500

\* The engine-derived annotations get-job stores (namespace, uid, ...).
extractWorkflowMetadata(w) ==
    [k \in MetadataKeys |->
        CASE k = "namespace" -> "argo"
          [] k = "uid" -> "uid"
          [] OTHER -> ""]

\* strings.TrimSuffix(p, "/") on a path held as a sequence of its parts.
TrimSuffixSlash(p) ==
    IF Len(p) > 0 /\ p[Len(p)] = "/" THEN SubSeq(p, 1, Len(p) - 1) ELSE p

\* strings.HasPrefix(p, prefix), prefix being a scheme such as "s3://".
HasPrefix(p, prefix) == Len(p) > 0 /\ p[1] = prefix

\* The read path POST /task/new works on: readS3Path, else the legacy zipurl.
ReadPath(req) ==
    IF req.readS3Path # <<>>
    THEN TrimSuffixSlash(req.readS3Path) \o <<"/">>
    ELSE TrimSuffixSlash(req.zipurl) \o <<"/">>

\* The write path: writeS3Path, else a subdirectory of the read path.
WritePath(req) ==
    IF req.readS3Path # <<>>
    THEN IF req.writeS3Path # <<>>
         THEN TrimSuffixSlash(req.writeS3Path) \o <<"/">>
         ELSE TrimSuffixSlash(req.readS3Path) \o <<"/", "output", "/">>
    ELSE TrimSuffixSlash(req.zipurl) \o <<"-output", "/">>

\* awsEnv with the session token entry whether or not there is a token.
awsEnv_AlwaysToken(config) ==
    {<<"AWS_ACCESS_KEY_ID", config.accessKeyID>>,
     <<"AWS_SECRET_ACCESS_KEY", config.secretAccessKey>>,
     <<"AWS_DEFAULT_REGION", config.region>>,
     <<"AWS_SESSION_TOKEN", config.sessionToken>>}
    \cup (IF config.endpoint # "" THEN {<<"AWS_S3_ENDPOINT", config.endpoint>>}
          ELSE {})

\* awsEnv of buildODMWorkflow: the (name, value) entries built from the
\* credentials, the region, and the token and endpoint that are not empty.
awsEnv(config) ==
    {<<"AWS_ACCESS_KEY_ID", config.accessKeyID>>,
     <<"AWS_SECRET_ACCESS_KEY", config.secretAccessKey>>,
     <<"AWS_DEFAULT_REGION", config.region>>}
    \cup (IF config.sessionToken # ""
          THEN {<<"AWS_SESSION_TOKEN", config.sessionToken>>} ELSE {})
    \cup (IF config.endpoint # "" THEN {<<"AWS_S3_ENDPOINT", config.endpoint>>}
          ELSE {})

\* The Env of each container buildODMWorkflow(config) builds: awsEnv on
\* download and upload, awsEnv and ARGO_NAMESPACE on cleanup, none on process.
buildODMWorkflow(config) ==
    [c \in Containers |->
        CASE c \in {"download", "upload"} -> awsEnv(config)
          [] c = "cleanup" -> awsEnv(config) \cup {<<"ARGO_NAMESPACE", "argo">>}
          [] OTHER -> {}]

\* A validation of POST /task/new that lets an HTTP zip URL through.
ValidateTaskNew_AcceptsHTTPZip(req) ==
    IF req.options.set /\ ~req.options.json THEN "Invalid options JSON"
    ELSE IF req.readS3Path = <<>> /\ req.zipurl = <<>>
    THEN "readS3Path is required"
    ELSE IF req.readS3Path = <<>> /\ ~HasPrefix(req.zipurl, "s3://")
                                  /\ ~HasPrefix(req.zipurl, "http://")
                                  /\ ~HasPrefix(req.zipurl, "https://")
    THEN "zipurl must be an s3:// prefix or a http(s) zip URL"
    ELSE IF req.readS3Path # <<>> /\ ~HasPrefix(ReadPath(req), "s3://")
    THEN "readS3Path must be an s3:// path"
    ELSE IF req.readS3Path # <<>> /\ ~HasPrefix(WritePath(req), "s3://")
    THEN "writeS3Path must be an s3:// path"
    ELSE ""

\* The 400 message POST /task/new answers a request with, "" when it passes:
\* the options JSON, then the choice of paths, then their s3:// prefixes.
ValidateTaskNew(req) ==
    IF req.options.set /\ ~req.options.json THEN "Invalid options JSON"
    ELSE IF req.readS3Path = <<>> /\ req.zipurl = <<>>
    THEN "readS3Path is required"
    ELSE IF req.readS3Path = <<>> /\ ~HasPrefix(req.zipurl, "s3://")
                                  /\ ~HasPrefix(req.zipurl, "http://")
                                  /\ ~HasPrefix(req.zipurl, "https://")
    THEN "zipurl must be an s3:// prefix or a http(s) zip URL"
    ELSE IF req.readS3Path = <<>> /\ ~HasPrefix(req.zipurl, "s3://")
    THEN "HTTP zip URLs not supported"
    ELSE IF ~HasPrefix(ReadPath(req), "s3://")
    THEN "readS3Path must be an s3:// path"
    ELSE IF ~HasPrefix(WritePath(req), "s3://")
    THEN "writeS3Path must be an s3:// path"
    ELSE ""

\* The credential broker: the request's key pair, else the environment's.
ResolveCredentials(s3Keys, envKeys) ==
    IF s3Keys THEN "API parameters"
    ELSE IF envKeys THEN "environment variables" ELSE "none"

\* A submission that goes on whatever the broker returned.
CredentialsMissing_Ignored(creds) == FALSE

\* POST /task/new answers 400 when the broker returned an error or nil.
CredentialsMissing(creds) == creds = "none"

\* A submission that records its row whether or not the engine took the workflow.
TaskNewRecords_Regardless(engineOk, dbOk) == dbOk

\* CreateJob is reached only once CreateODMWorkflow returned without error, and
\* its INSERT may itself fail.
TaskNewRecords(engineOk, dbOk) == engineOk /\ dbOk

\* The engine generates workflow names (generateName): the next name is one no
\* client has named in a request yet.
FreshName(w) ==
    /\ cancelReq # w
    /\ jobReq.uuid # w
    /\ removeReq # w
    /\ restartReq.uuid # w
    /\ w \notin removed

\* POST /task/new: validate, resolve credentials, submit the workflow under a
\* generated name, then record the row; a failed insert is only logged.
TaskNew(req, envKeys, engineOk, dbOk) ==
    /\ nextName < MaxTasks
    /\ FreshName(nextName + 1)
    /\ LET w == nextName + 1
           creds == ResolveCredentials(req.s3Keys, envKeys)
           answer == [NoResp EXCEPT !.op = "new", !.req = req]
       IN
       IF ValidateTaskNew(req) # ""
       THEN /\ resp' = [answer EXCEPT !.code = 400]
            /\ UNCHANGED <<engine, nextName, rows>>
       ELSE IF CredentialsMissing(creds)
       THEN /\ resp' = [answer EXCEPT !.code = 400, !.creds = creds]
            /\ UNCHANGED <<engine, nextName, rows>>
       ELSE /\ engine' = IF engineOk THEN [engine EXCEPT ![w] = "Pending"] ELSE engine
            /\ nextName' = IF engineOk THEN w ELSE nextName
            /\ rows' = IF TaskNewRecords(engineOk, dbOk)
                       THEN ExecCreateJob(rows, w, TRUE) ELSE rows
            /\ resp' = IF engineOk
                       THEN [answer EXCEPT !.uuid = w, !.code = 200, !.creds = creds,
                                           !.dbErr = ~dbOk]
                       ELSE [answer EXCEPT !.code = 500, !.creds = creds,
                                           !.engineUp = FALSE]
    /\ UNCHANGED <<now, cancelReq, jobReq, canceled, removeReq, restartReq, removed,
                   clusters, retry, watch, schemaInit>>

\* An info handler that asks the engine first and fails without its object.
InfoCode_EngineFirst(row, wf, up, dbOk) ==
    IF ~dbOk THEN 500
    ELSE IF ~row.present \/ wf = NoWf THEN 404
    ELSE IF ~up THEN 500 ELSE 200

\* HTTP code of GET /task/{uuid}/info: the engine is not consulted.
InfoCode(row, wf, up, dbOk) ==
    IF ~dbOk THEN 500 ELSE IF ~row.present THEN 404 ELSE 200

\* GET /task/{uuid}/info: built from the metadata row alone.
TaskInfo(w, up, dbOk) ==
    /\ resp' = [NoResp EXCEPT
                   !.op = "info", !.uuid = w,
                   !.code = InfoCode(rows[w], engine[w], up, dbOk),
                   !.status = IF InfoCode(rows[w], engine[w], up, dbOk) = 200
                              THEN jobStatusToStatusCode(rows[w].job_status) ELSE 0,
                   !.dbErr = ~dbOk, !.engineUp = up]
    /\ UNCHANGED <<rows, engine, nextName, now, cancelReq, jobReq, canceled,
                   removeReq, restartReq, removed,
                   clusters, retry, watch, schemaInit>>

\* A cancel that returns early only on "not found".
CancelProceeds_UnlessNotFound(err) == err # "not found"

\* Whether cancel goes on to its store write after DeleteWorkflow returned err.
CancelProceeds(err) == err = "ok"

\* POST /task/cancel, first half: delete the engine object.
CancelDelete(w, up) ==
    /\ cancelReq = 0
    /\ LET err == DeleteWorkflowResult(engine[w], up) IN
       /\ engine' = IF err = "ok" THEN [engine EXCEPT ![w] = NoWf] ELSE engine
       /\ IF CancelProceeds(err)
          THEN /\ cancelReq' = w
               /\ resp' = NoResp
          ELSE /\ cancelReq' = 0
               /\ resp' = [NoResp EXCEPT !.op = "cancel", !.uuid = w,
                                         !.code = EngineErrorCode(err),
                                         !.engineUp = up]
    /\ UNCHANGED <<rows, nextName, now, jobReq, canceled,
                   removeReq, restartReq, removed,
                   clusters, retry, watch, schemaInit>>

\* POST /task/cancel, second half: write job_status = failed; a failed write
\* is only logged and the handler returns success.
CancelWrite(dbOk) ==
    /\ cancelReq # 0
    /\ rows' = ExecUpdateJobStatus(rows, cancelReq, "failed", NULL, now, dbOk)
    /\ canceled' = canceled \cup {cancelReq}
    /\ resp' = [NoResp EXCEPT !.op = "cancel", !.uuid = cancelReq, !.code = 200,
                              !.dbErr = ~dbOk]
    /\ cancelReq' = 0
    /\ UNCHANGED <<engine, nextName, now, jobReq,
                   removeReq, restartReq, removed,
                   clusters, retry, watch, schemaInit>>

\* A get-job that translates the engine phase to a job_status before its write.
GetJobStatusArg_Translated(phase) ==
    CASE phase = "Pending" -> "pending"
      [] phase = "Running" -> "running"
      [] phase = "Succeeded" -> "completed"
      [] OTHER -> "failed"

\* The status get-job hands to UpdateJobStatus: the engine phase as it is.
GetJobStatusArg(phase) == phase

\* get-job, first half: fetch the workflow object.
GetJobFetch(w, up) ==
    /\ jobReq = NoReq
    /\ LET err == GetWorkflowResult(engine[w], up) IN
       IF err = "ok"
       THEN /\ jobReq' = [uuid |-> w, phase |-> engine[w]]
            /\ resp' = NoResp
       ELSE /\ jobReq' = NoReq
            /\ resp' = [NoResp EXCEPT !.op = "get-job", !.uuid = w,
                                      !.code = EngineErrorCode(err)]
    /\ UNCHANGED <<rows, engine, nextName, now, cancelReq, canceled,
                   removeReq, restartReq, removed,
                   clusters, retry, watch, schemaInit>>

\* get-job, second half: UpdateJobStatus, then UpdateJobMetadata; failures of
\* either are only logged.
GetJobWrite(dbOk) ==
    /\ jobReq # NoReq
    /\ LET w == jobReq.uuid
           errorMsg == IF jobReq.phase \in {"Failed", "Error"}
                       THEN EngineMessage ELSE NULL
           rs1 == ExecUpdateJobStatus(rows, w, GetJobStatusArg(jobReq.phase),
                                      errorMsg, now, dbOk)
       IN /\ rows' = ExecUpdateJobMetadata(rs1, w, extractWorkflowMetadata(w), dbOk)
          /\ resp' = [NoResp EXCEPT
                         !.op = "get-job", !.uuid = w, !.code = 200,
                         !.dbErr = ~dbOk \/ UpdateJobStatusFails(
                                       rows, w, GetJobStatusArg(jobReq.phase))]
    /\ jobReq' = NoReq
    /\ UNCHANGED <<engine, nextName, now, cancelReq, canceled,
                   removeReq, restartReq, removed,
                   clusters, retry, watch, schemaInit>>

\* A remove that goes on to the store whatever the engine answered.
RemoveProceeds_Always(err) == TRUE

\* Whether remove goes on to its store delete after DeleteWorkflow returned
\* err: "not found" is let through.
RemoveProceeds(err) == err # "error"

\* POST /task/remove, first half: delete the engine object.
RemoveDelete(w, up) ==
    /\ removeReq = 0
    /\ LET err == DeleteWorkflowResult(engine[w], up) IN
       /\ engine' = IF err = "ok" THEN [engine EXCEPT ![w] = NoWf] ELSE engine
       /\ IF RemoveProceeds(err)
          THEN /\ removeReq' = w
               /\ resp' = NoResp
          ELSE /\ removeReq' = 0
               /\ resp' = [NoResp EXCEPT !.op = "remove", !.uuid = w, !.code = 500,
                                         !.engineUp = up]
    /\ UNCHANGED <<rows, nextName, now, cancelReq, jobReq, canceled, restartReq,
                   removed,
                   clusters, retry, watch, schemaInit>>

\* POST /task/remove, second half: delete the row; an error of DeleteJob is
\* only logged and the handler returns success.
RemoveWrite(dbOk) ==
    /\ removeReq # 0
    /\ rows' = ExecDeleteJob(rows, removeReq, dbOk)
    /\ removed' = removed \cup {removeReq}
    /\ resp' = [NoResp EXCEPT !.op = "remove", !.uuid = removeReq, !.code = 200,
                              !.dbErr = DeleteJobFails(rows, removeReq, dbOk)]
    /\ removeReq' = 0
    /\ UNCHANGED <<engine, nextName, now, cancelReq, jobReq, canceled, restartReq,
                   clusters, retry, watch, schemaInit>>

\* The S3Credentials of the config restart builds: NewDefaultODMConfig leaves
\* them nil and restart does not set them.
RestartCredentials == "none"

\* buildODMWorkflow panics on a config without credentials.
BuildPanics(creds) == creds = "none"

\* POST /task/restart, first half: GetJob.  An error is answered 404; a missing
\* row is (nil, nil) and is not checked, so reading the stored flags from it,
\* when the request carries no options, panics.  A panic of a handler ends the
\* connection without a response (code 0).
RestartLoad(w, options, dbOk) ==
    /\ restartReq = NoRestart
    /\ LET answer == [NoResp EXCEPT !.op = "restart", !.uuid = w,
                                    !.found = dbOk /\ rows[w].present]
       IN
       IF ~dbOk
       THEN /\ resp' = [answer EXCEPT !.code = 404, !.dbErr = TRUE]
            /\ restartReq' = NoRestart
       ELSE IF ~rows[w].present /\ ~options.set
       THEN /\ resp' = answer
            /\ restartReq' = NoRestart
       ELSE /\ resp' = NoResp
            /\ restartReq' = [uuid |-> w, found |-> rows[w].present]
    /\ UNCHANGED <<rows, engine, nextName, now, cancelReq, jobReq, canceled,
                   removeReq, removed,
                   clusters, retry, watch, schemaInit>>

\* POST /task/restart, second half: DeleteWorkflow (errors only logged), then
\* build the config from the loaded row (a panic on a nil row) and submit it
\* (a panic in buildODMWorkflow without credentials), then DeleteJob of the old
\* row and CreateJob of the new one (errors only logged).
RestartReplace(up, engineOk, dbOk) ==
    /\ restartReq # NoRestart
    /\ LET w == restartReq.uuid
           err == DeleteWorkflowResult(engine[w], up)
           deleted == IF err = "ok" THEN [engine EXCEPT ![w] = NoWf] ELSE engine
           n == nextName + 1
           answer == [NoResp EXCEPT !.op = "restart", !.uuid = w,
                                    !.found = restartReq.found, !.engineUp = up]
       IN
       IF ~restartReq.found
       THEN /\ engine' = deleted
            /\ resp' = answer
            /\ UNCHANGED <<rows, nextName>>
       ELSE IF BuildPanics(RestartCredentials)
       THEN /\ engine' = deleted
            /\ resp' = [answer EXCEPT !.creds = RestartCredentials]
            /\ UNCHANGED <<rows, nextName>>
       ELSE IF ~(engineOk /\ nextName < MaxTasks)
       THEN /\ engine' = deleted
            /\ resp' = [answer EXCEPT !.code = 500, !.creds = RestartCredentials]
            /\ UNCHANGED <<rows, nextName>>
       ELSE /\ engine' = [deleted EXCEPT ![n] = "Pending"]
            /\ nextName' = n
            /\ rows' = ExecCreateJob(ExecDeleteJob(rows, w, dbOk), n, dbOk)
            /\ resp' = [answer EXCEPT !.code = 200, !.creds = RestartCredentials,
                                      !.dbErr = ~dbOk]
    /\ restartReq' = NoRestart
    /\ UNCHANGED <<now, cancelReq, jobReq, canceled, removeReq, removed,
                   clusters, retry, watch, schemaInit>>

\* A caller of the exported Store.CreateJob; workflow_name is UNIQUE.
StoreCreateJob(w) ==
    /\ ~rows[w].present
    /\ rows' = ExecCreateJob(rows, w, TRUE)
    /\ resp' = NoResp
    /\ UNCHANGED <<engine, nextName, now, cancelReq, jobReq, canceled,
                   removeReq, restartReq, removed,
                   clusters, retry, watch, schemaInit>>

\* A caller of the exported Store.UpdateJobStatus with a status of its choice.
StoreUpdateJobStatus(w, status, errorMsg) ==
    /\ rows[w].present
    /\ rows' = ExecUpdateJobStatus(rows, w, status, errorMsg, now, TRUE)
    /\ resp' = NoResp
    /\ UNCHANGED <<engine, nextName, now, cancelReq, jobReq, canceled,
                   removeReq, restartReq, removed,
                   clusters, retry, watch, schemaInit>>

\* A caller that walks a row through its lifecycle as the end-to-end test
\* does: UpdateJobStatus(w, "running", nil), then UpdateJobStatus(w, "completed", nil).
StoreLifecycleWrite(w, status) ==
    /\ rows[w].present
    /\ <<rows[w].job_status, status>> \in
          {<<DefaultJobStatus, "running">>, <<"running", "completed">>}
    /\ rows' = ExecUpdateJobStatus(rows, w, status, NULL, now, TRUE)
    /\ resp' = NoResp
    /\ UNCHANGED <<engine, nextName, now, cancelReq, jobReq, canceled,
                   removeReq, restartReq, removed,
                   clusters, retry, watch, schemaInit>>

\* ------------------------------------------------------------- the engine

\* The workflow controller moves an object forward through its phases.
EngineAdvance(w, phase) ==
    /\ \/ engine[w] = "Pending" /\ phase \in {"Running", "Failed", "Error"}
       \/ engine[w] = "Running" /\ phase \in TerminalPhases
    /\ engine' = [engine EXCEPT ![w] = phase]
    /\ resp' = NoResp
    /\ UNCHANGED <<rows, nextName, now, cancelReq, jobReq, canceled,
                   removeReq, restartReq, removed,
                   clusters, retry, watch, schemaInit>>

\* The engine garbage-collects an object, or it is deleted out of band.
EngineReap(w) ==
    /\ engine[w] # NoWf
    /\ engine' = [engine EXCEPT ![w] = NoWf]
    /\ resp' = NoResp
    /\ UNCHANGED <<rows, nextName, now, cancelReq, jobReq, canceled,
                   removeReq, restartReq, removed,
                   clusters, retry, watch, schemaInit>>

\* Time passes.
Tick ==
    /\ now < MaxTime
    /\ now' = now + 1
    /\ resp' = NoResp
    /\ UNCHANGED <<rows, engine, nextName, cancelReq, jobReq, canceled,
                   removeReq, restartReq, removed,
                   clusters, retry, watch, schemaInit>>

\* ------------------------------------------------------ the specification

Init ==
    /\ rows = [w \in RowNames |-> NoRow]
    /\ engine = [w \in Names |-> NoWf]
    /\ nextName = 0
    /\ now = 1
    /\ cancelReq = 0
    /\ jobReq = NoReq
    /\ canceled = {}
    /\ removeReq = 0
    /\ restartReq = NoRestart
    /\ removed = {}
    /\ clusters = [c \in ClusterURLs |->
                      IF c = LocalClusterURL THEN InsertedCluster(1) ELSE NoCluster]
    /\ retry = NoRetry
    /\ watch = NoWatch
    /\ schemaInit = NoSchemaInit
    /\ resp = NoResp

Next ==
    \/ \E req \in TaskNewRequests, envKeys \in BOOLEAN, engineOk \in BOOLEAN,
          dbOk \in BOOLEAN : TaskNew(req, envKeys, engineOk, dbOk)
    \/ \E w \in Names, up \in BOOLEAN, dbOk \in BOOLEAN : TaskInfo(w, up, dbOk)
    \/ \E w \in Names, up \in BOOLEAN : CancelDelete(w, up)
    \/ \E dbOk \in BOOLEAN : CancelWrite(dbOk)
    \/ \E w \in Names, up \in BOOLEAN : GetJobFetch(w, up)
    \/ \E dbOk \in BOOLEAN : GetJobWrite(dbOk)
    \/ \E w \in Names, phase \in Phases : EngineAdvance(w, phase)
    \/ \E w \in Names : EngineReap(w)
    \/ Tick

Spec == Init /\ [][Next]_vars

\* The store on its own, under callers that pass any status in any order
\* (the handlers' writes are among them).
StoreNext ==
    \/ \E w \in StoreNames : StoreCreateJob(w)
    \/ \E w \in StoreNames, status \in JobStatuses, errorMsg \in ErrorMessages :
          StoreUpdateJobStatus(w, status, errorMsg)
    \/ Tick

StoreSpec == Init /\ [][StoreNext]_vars

\* The handlers and the engine, next to a caller of the store that moves rows
\* forward through running to completed.
LifecycleNext ==
    \/ Next
    \/ \E w \in Names, status \in JobStatuses : StoreLifecycleWrite(w, status)

LifecycleSpec == Init /\ [][LifecycleNext]_vars

\* Phases handed to MapArgoPhaseToJobStatus: those of the engine, one it does
\* not know and the empty phase of an object the controller has not seen yet.
PhaseInputs == Phases \cup {"Unknown", ""}

\* A caller of the exported MapArgoPhaseToJobStatus.
MapPhase(phase) ==
    /\ resp' = [NoResp EXCEPT !.op = "map", !.phase = phase,
                              !.job_status = MapArgoPhaseToJobStatus(phase)]
    /\ UNCHANGED <<rows, engine, nextName, now, cancelReq, jobReq, canceled,
                   removeReq, restartReq, removed,
                   clusters, retry, watch, schemaInit>>

\* The store and the phase mapping under their callers.
MapNext ==
    \/ StoreNext
    \/ \E phase \in PhaseInputs : MapPhase(phase)

MapSpec == Init /\ [][MapNext]_vars

\* The NodeODM task handlers (new, info, cancel, remove, restart) and the engine.
AdminNext ==
    \/ \E req \in TaskNewRequests, envKeys \in BOOLEAN, engineOk \in BOOLEAN,
          dbOk \in BOOLEAN : TaskNew(req, envKeys, engineOk, dbOk)
    \/ \E w \in Names, up \in BOOLEAN, dbOk \in BOOLEAN : TaskInfo(w, up, dbOk)
    \/ \E w \in Names, up \in BOOLEAN : CancelDelete(w, up)
    \/ \E dbOk \in BOOLEAN : CancelWrite(dbOk)
    \/ \E w \in Names, up \in BOOLEAN : RemoveDelete(w, up)
    \/ \E dbOk \in BOOLEAN : RemoveWrite(dbOk)
    \/ \E w \in Names, options \in OptionsInputs, dbOk \in BOOLEAN :
          RestartLoad(w, options, dbOk)
    \/ \E up \in BOOLEAN, engineOk \in BOOLEAN, dbOk \in BOOLEAN :
          RestartReplace(up, engineOk, dbOk)
    \/ \E w \in Names, phase \in Phases : EngineAdvance(w, phase)
    \/ \E w \in Names : EngineReap(w)

AdminSpec == Init /\ [][AdminNext]_vars

\* ------------------------------------------------------- retryOnDeadlock

\* isDeadlockError with every error taken for a deadlock.
isDeadlockError_Any(err) == err # NoError

\* isDeadlockError(err): err is not nil and its message contains "deadlock"
\* or "40P01".
isDeadlockError(err) ==
    /\ err # NoError
    /\ \E k \in 1..Len(err) : err[k] \in {"deadlock", "40P01", "40P01)"}

\* The select between ctx.Done() and the timer with the timer always taken.
TimerElapses_Always(cancelled) == TRUE

\* The select between ctx.Done() and time.After(waitTime): the timer case is
\* taken when the timer fires before ctx is cancelled.
TimerElapses(cancelled) == ~cancelled

\* retryOnDeadlock(ctx, maxRetries, fn) is called.
RetryStart(maxRetries) ==
    /\ retry.pc \in {"idle", "done"}
    /\ retry' = [NoRetry EXCEPT !.pc = "call", !.maxRetries = maxRetries]
    /\ resp' = NoResp
    /\ UNCHANGED <<rows, engine, nextName, now, cancelReq, jobReq, canceled,
                   removeReq, restartReq, removed, clusters, watch, schemaInit>>

\* lastErr = fn(): nil returns nil, an error that is no deadlock returns the
\* error, a deadlock goes on to the wait.
RetryCall(err) ==
    /\ retry.pc = "call"
    /\ retry' = [retry EXCEPT
                    !.calls = @ + 1,
                    !.lastErr = err,
                    !.succeeded = @ \/ err = NoError,
                    !.pc = IF isDeadlockError(err) THEN "wait" ELSE "done",
                    !.result = IF isDeadlockError(err) THEN @ ELSE err]
    /\ resp' = NoResp
    /\ UNCHANGED <<rows, engine, nextName, now, cancelReq, jobReq, canceled,
                   removeReq, restartReq, removed, clusters, watch, schemaInit>>

\* The caller's context is cancelled.
RetryCancel ==
    /\ retry.pc \in {"call", "wait"}
    /\ ~retry.cancelled
    /\ retry' = [retry EXCEPT !.cancelled = TRUE]
    /\ resp' = NoResp
    /\ UNCHANGED <<rows, engine, nextName, now, cancelReq, jobReq, canceled,
                   removeReq, restartReq, removed, clusters, watch, schemaInit>>

\* case <-time.After(waitTime): the next iteration, or return lastErr when
\* the loop is over.
RetryWaitElapsed ==
    /\ retry.pc = "wait"
    /\ TimerElapses(retry.cancelled)
    /\ retry' = [retry EXCEPT
                    !.i = @ + 1,
                    !.pc = IF retry.i + 1 < retry.maxRetries THEN "call" ELSE "done",
                    !.result = IF retry.i + 1 < retry.maxRetries THEN @
                               ELSE retry.lastErr]
    /\ resp' = NoResp
    /\ UNCHANGED <<rows, engine, nextName, now, cancelReq, jobReq, canceled,
                   removeReq, restartReq, removed, clusters, watch, schemaInit>>

\* case <-ctx.Done(): return ctx.Err().
RetryAbort ==
    /\ retry.pc = "wait"
    /\ retry.cancelled
    /\ retry' = [retry EXCEPT !.pc = "done", !.result = CtxErr]
    /\ resp' = NoResp
    /\ UNCHANGED <<rows, engine, nextName, now, cancelReq, jobReq, canceled,
                   removeReq, restartReq, removed, clusters, watch, schemaInit>>

\* retryOnDeadlock under a caller, an operation and a context of any behaviour.
RetryNext ==
    \/ \E maxRetries \in 1..MaxRetries : RetryStart(maxRetries)
    \/ \E err \in FnErrors \cup {NoError} : RetryCall(err)
    \/ RetryCancel
    \/ RetryWaitElapsed
    \/ RetryAbort

RetrySpec == Init /\ [][RetryNext]_vars

\* --------------------------------------------------------- WatchWorkflow

\* The completion test with Running taken for complete.
WatchComplete_Running(phase) == phase \in TerminalPhases \cup {"Running"}

\* WatchWorkflow's completion test: Succeeded, Failed or Error.
WatchComplete(phase) == phase \in TerminalPhases

\* A client submits a workflow under the name w.
EngineSubmit(w) ==
    /\ engine[w] = NoWf
    /\ engine' = [engine EXCEPT ![w] = "Pending"]
    /\ resp' = NoResp
    /\ UNCHANGED <<rows, nextName, now, cancelReq, jobReq, canceled,
                   removeReq, restartReq, removed,
                   clusters, retry, watch, schemaInit>>

\* watcher.Stop() on the watcher the call wt opened last.
WatcherStop(wt) == [wt EXCEPT !.open = @ - 1]

\* The call wt of WatchWorkflow returns workflow wf and error err at point at.
WatchReturn(wt, wf, err, at) ==
    [wt EXCEPT !.pc = "done", !.wf = wf, !.err = err, !.at = at]

\* The call wt after a GetWorkflow at point at: its error is returned, a
\* complete workflow is returned, anything else goes on at pc.
WatchAfterGet(wt, up, at, pc) ==
    IF GetWorkflowResult(engine[wt.uuid], up) # "ok"
    THEN WatchReturn(wt, NoWf, "get", at)
    ELSE IF WatchComplete(engine[wt.uuid])
    THEN WatchReturn(wt, engine[wt.uuid], "", at)
    ELSE [wt EXCEPT !.pc = pc]

\* WatchWorkflow(ctx, w) is called: the initial GetWorkflow.
WatchStart(w, up) ==
    /\ watch.pc \in {"idle", "done"}
    /\ watch' = WatchAfterGet([NoWatch EXCEPT !.uuid = w], up, "initial", "open")
    /\ resp' = NoResp
    /\ UNCHANGED <<rows, engine, nextName, now, cancelReq, jobReq, canceled,
                   removeReq, restartReq, removed,
                   clusters, retry, schemaInit>>

\* Workflows(namespace).Watch(ctx, ...): an error is returned.
WatchOpen(up) ==
    /\ watch.pc = "open"
    /\ up => watch.open < MaxWatchers
    /\ watch' = IF up THEN [watch EXCEPT !.pc = "select", !.open = @ + 1]
                 ELSE WatchReturn(watch, NoWf, "watch", "watch")
    /\ resp' = NoResp
    /\ UNCHANGED <<rows, engine, nextName, now, cancelReq, jobReq, canceled,
                   removeReq, restartReq, removed,
                   clusters, retry, schemaInit>>

\* case event := <-watcher.ResultChan() with a workflow object: on a complete
\* workflow the watcher is stopped and the workflow returned, any other one
\* leaves the inner loop for the delay with the watcher as it is.
WatchEvent ==
    /\ watch.pc = "select"
    /\ engine[watch.uuid] # NoWf
    /\ watch' = IF WatchComplete(engine[watch.uuid])
                 THEN WatchReturn(WatcherStop(watch), engine[watch.uuid], "",
                                  "event")
                 ELSE [watch EXCEPT !.pc = "delay"]
    /\ resp' = NoResp
    /\ UNCHANGED <<rows, engine, nextName, now, cancelReq, jobReq, canceled,
                   removeReq, restartReq, removed,
                   clusters, retry, schemaInit>>

\* case event, ok := <-watcher.ResultChan() with ok false: the channel is
\* closed, the watcher is stopped and GetWorkflow decides.
WatchClosed(up) ==
    /\ watch.pc = "select"
    /\ watch' = WatchAfterGet(WatcherStop(watch), up, "closed", "delay")
    /\ resp' = NoResp
    /\ UNCHANGED <<rows, engine, nextName, now, cancelReq, jobReq, canceled,
                   removeReq, restartReq, removed,
                   clusters, retry, schemaInit>>

\* The caller's context is cancelled.
WatchCancel ==
    /\ watch.pc \in {"open", "select", "delay"}
    /\ ~watch.cancelled
    /\ watch' = [watch EXCEPT !.cancelled = TRUE]
    /\ resp' = NoResp
    /\ UNCHANGED <<rows, engine, nextName, now, cancelReq, jobReq, canceled,
                   removeReq, restartReq, removed,
                   clusters, retry, schemaInit>>

\* case <-ctx.Done() of either select (the inner one stops the watcher
\* first): GetWorkflow(ctx, w) with the cancelled context, then its error, or
\* the workflow and ctx.Err().
WatchCancelled(up) ==
    /\ watch.pc \in {"select", "delay"}
    /\ watch.cancelled
    /\ LET wt == IF watch.pc = "select" THEN WatcherStop(watch) ELSE watch IN
         watch' = IF GetWorkflowResult(engine[watch.uuid], up) # "ok"
                  THEN WatchReturn(wt, NoWf, "get", "cancelled")
                  ELSE WatchReturn(wt, engine[watch.uuid], "ctx", "cancelled")
    /\ resp' = NoResp
    /\ UNCHANGED <<rows, engine, nextName, now, cancelReq, jobReq, canceled,
                   removeReq, restartReq, removed,
                   clusters, retry, schemaInit>>

\* case <-time.After(1 * time.Second): the outer loop opens the next watch.
WatchDelayElapsed ==
    /\ watch.pc = "delay"
    /\ TimerElapses(watch.cancelled)
    /\ watch' = [watch EXCEPT !.pc = "open"]
    /\ resp' = NoResp
    /\ UNCHANGED <<rows, engine, nextName, now, cancelReq, jobReq, canceled,
                   removeReq, restartReq, removed,
                   clusters, retry, schemaInit>>

\* WatchWorkflow beside the engine, under a caller and a context of any
\* behaviour.
WatchNext ==
    \/ \E w \in Names : EngineSubmit(w)
    \/ \E w \in Names, phase \in Phases : EngineAdvance(w, phase)
    \/ \E w \in Names : EngineReap(w)
    \/ \E w \in Names, up \in BOOLEAN : WatchStart(w, up)
    \/ \E up \in BOOLEAN : WatchOpen(up)
    \/ WatchEvent
    \/ \E up \in BOOLEAN : WatchClosed(up)
    \/ WatchCancel
    \/ \E up \in BOOLEAN : WatchCancelled(up)
    \/ WatchDelayElapsed

WatchSpec == Init /\ [][WatchNext]_vars

\* ----------------------------------------------------- UpdateJobMetadata

\* A caller of the exported Store.UpdateJobMetadata with a map of its choice;
\* the map is kept in resp.
StoreUpdateJobMetadata(w, metadata) ==
    /\ rows' = ExecUpdateJobMetadata(rows, w, metadata, TRUE)
    /\ resp' = [NoResp EXCEPT !.op = "updateMetadata", !.uuid = w,
                              !.metadata = metadata]
    /\ UNCHANGED <<engine, nextName, now, cancelReq, jobReq, canceled,
                   removeReq, restartReq, removed,
                   clusters, retry, watch, schemaInit>>

\* The store under callers that create rows and write their status and
\* their metadata.
MetadataNext ==
    \/ \E w \in StoreNames : StoreCreateJob(w)
    \/ \E w \in StoreNames, status \in ClusterStatuses :
          StoreUpdateJobStatus(w, status, NULL)
    \/ \E w \in StoreNames, metadata \in MetadataInputs :
          StoreUpdateJobMetadata(w, metadata)

MetadataSpec == Init /\ [][MetadataNext]_vars

\* ------------------------------------------------------------ InitSchema

\* Replica r's call of InitSchema returns result; a deferred Rollback undoes
\* what its transaction has not committed.
InitReturn(si, r, result) ==
    [si EXCEPT !.pc[r] = "done", !.result[r] = result,
               !.pending = IF @ = r THEN 0 ELSE @,
               !.faulted = @ \/ result = "error"]

\* The lock holder after schema.sql failed with "duplicate key" or "already
\* exists": the transaction is aborted, so the pg_advisory_unlock statement
\* sent in it is refused and the session keeps the lock.
AlreadyExistsHolder(r) == r

\* tx, err := db.Pool.Begin(ctx).
InitBegin(r, ok) ==
    /\ schemaInit.pc[r] = "idle"
    /\ schemaInit' = IF ok THEN [schemaInit EXCEPT !.pc[r] = "lock"]
                      ELSE InitReturn(schemaInit, r, "error")
    /\ resp' = NoResp
    /\ UNCHANGED <<rows, engine, nextName, now, cancelReq, jobReq, canceled,
                   removeReq, restartReq, removed, clusters, retry, watch>>

\* SELECT pg_advisory_lock(123456): waits while another session holds the lock.
InitLock(r, ok) ==
    /\ schemaInit.pc[r] = "lock"
    /\ ok => schemaInit.holder = 0
    /\ schemaInit' = IF ok THEN [schemaInit EXCEPT !.pc[r] = "ddl", !.holder = r]
                      ELSE InitReturn(schemaInit, r, "error")
    /\ resp' = NoResp
    /\ UNCHANGED <<rows, engine, nextName, now, cancelReq, jobReq, canceled,
                   removeReq, restartReq, removed, clusters, retry, watch>>

\* tx.Exec(ctx, schemaSQL): CREATE TABLE scaleodm_job_metadata fails once the
\* table is there, and waits for a transaction that is creating it.
InitDDL(r, ok) ==
    /\ schemaInit.pc[r] = "ddl"
    /\ schemaInit.pending = 0
    /\ schemaInit' =
          IF ~ok THEN InitReturn(schemaInit, r, "error")
          ELSE IF schemaInit.tables
          THEN [schemaInit EXCEPT !.pc[r] = "done", !.result[r] = "nil",
                                  !.holder = AlreadyExistsHolder(r)]
          ELSE [schemaInit EXCEPT !.pc[r] = "unlock", !.pending = r]
    /\ resp' = NoResp
    /\ UNCHANGED <<rows, engine, nextName, now, cancelReq, jobReq, canceled,
                   removeReq, restartReq, removed, clusters, retry, watch>>

\* SELECT pg_advisory_unlock(123456), before the commit.
InitUnlock(r, ok) ==
    /\ schemaInit.pc[r] = "unlock"
    /\ schemaInit' = IF ok THEN [schemaInit EXCEPT !.pc[r] = "commit", !.holder = 0]
                      ELSE InitReturn(schemaInit, r, "error")
    /\ resp' = NoResp
    /\ UNCHANGED <<rows, engine, nextName, now, cancelReq, jobReq, canceled,
                   removeReq, restartReq, removed, clusters, retry, watch>>

\* tx.Commit(ctx).
InitCommit(r, ok) ==
    /\ schemaInit.pc[r] = "commit"
    /\ schemaInit' = IF ok THEN [schemaInit EXCEPT !.pc[r] = "done",
                                                   !.result[r] = "nil",
                                                   !.pending = 0, !.tables = TRUE]
                      ELSE InitReturn(schemaInit, r, "error")
    /\ resp' = NoResp
    /\ UNCHANGED <<rows, engine, nextName, now, cancelReq, jobReq, canceled,
                   removeReq, restartReq, removed, clusters, retry, watch>>

\* The pool of a replica whose call is over closes the connection the call
\* used (MaxConnLifetime, MaxConnIdleTime): its session's lock is released.
PoolRecycles(r) ==
    /\ schemaInit.pc[r] = "done"
    /\ schemaInit.holder = r
    /\ schemaInit' = [schemaInit EXCEPT !.holder = 0]
    /\ resp' = NoResp
    /\ UNCHANGED <<rows, engine, nextName, now, cancelReq, jobReq, canceled,
                   removeReq, restartReq, removed, clusters, retry, watch>>

\* The replicas start against one database.
InitNext ==
    \/ \E r \in Replicas, ok \in BOOLEAN : InitBegin(r, ok)
    \/ \E r \in Replicas, ok \in BOOLEAN : InitLock(r, ok)
    \/ \E r \in Replicas, ok \in BOOLEAN : InitDDL(r, ok)
    \/ \E r \in Replicas, ok \in BOOLEAN : InitUnlock(r, ok)
    \/ \E r \in Replicas, ok \in BOOLEAN : InitCommit(r, ok)
    \/ \E r \in Replicas : PoolRecycles(r)

InitSpec == Init /\ [][InitNext]_vars

\* --------------------------------------------------- the clusters table

\* A caller of the exported Store.CreateJob with a cluster_url of its choice.
CreateJobOnCluster(c, w) ==
    /\ rows' = ExecCreateJobOn(rows, clusters, c, w, TRUE)
    /\ resp' = [NoResp EXCEPT !.op = "createJob", !.uuid = w, !.cluster = c,
                              !.dbErr = CreateJobFails(rows, clusters, c, w, TRUE)]
    /\ UNCHANGED <<engine, nextName, now, cancelReq, jobReq, canceled,
                   removeReq, restartReq, removed,
                   clusters, retry, watch, schemaInit>>

\* The health checker's Store.UpdateClusterHeartbeat(c).
UpdateClusterHeartbeat(c) ==
    /\ clusters' = ExecUpdateClusterHeartbeat(clusters, c, now)
    /\ resp' = NoResp
    /\ UNCHANGED <<rows, engine, nextName, now, cancelReq, jobReq, canceled,
                   removeReq, restartReq, removed, retry, watch, schemaInit>>

\* Store.GetClusterCapacity(c); the answer is kept in resp.
ReadClusterCapacity(c) ==
    /\ LET cap == GetClusterCapacity(rows, clusters, c) IN
         resp' = [NoResp EXCEPT !.op = "capacity", !.cluster = c,
                                !.found = cap.found, !.maxJobs = cap.maxJobs,
                                !.activeJobs = cap.activeJobs]
    /\ UNCHANGED <<rows, engine, nextName, now, cancelReq, jobReq, canceled,
                   removeReq, restartReq, removed,
                   clusters, retry, watch, schemaInit>>

\* The store's job and cluster operations under callers of their choice.
ClusterNext ==
    \/ \E c \in ClusterURLs, w \in JobNames : CreateJobOnCluster(c, w)
    \/ \E w \in JobNames, status \in ClusterStatuses :
          StoreUpdateJobStatus(w, status, NULL)
    \/ \E c \in ClusterURLs : UpdateClusterHeartbeat(c)
    \/ \E c \in ClusterURLs : ReadClusterCapacity(c)

ClusterSpec == Init /\ [][ClusterNext]_vars

\* ------------------------------------------------- the cluster records

\* The values callers pass to UpdateClusterDetails (two ints of any value).
MaxJobsInputs == {0, 1, 20}
PriorityWeightingInputs == {0, 50, 101}

\* DB.InitLocalClusterRecord(c).
InitLocalClusterRecord(c) ==
    /\ clusters' = ExecInitLocalClusterRecord(clusters, c, now)
    /\ resp' = [NoResp EXCEPT !.op = "initCluster", !.cluster = c]
    /\ UNCHANGED <<rows, engine, nextName, now, cancelReq, jobReq, canceled,
                   removeReq, restartReq, removed, retry, watch, schemaInit>>

\* Store.UpdateClusterDetails(c, maxJobs, priorityWeighting).
UpdateClusterDetails(c, maxJobs, priorityWeighting) ==
    /\ clusters' = ExecUpdateClusterDetails(clusters, c, maxJobs,
                                            priorityWeighting, now)
    /\ resp' = [NoResp EXCEPT !.op = "clusterDetails", !.cluster = c]
    /\ UNCHANGED <<rows, engine, nextName, now, cancelReq, jobReq, canceled,
                   removeReq, restartReq, removed, retry, watch, schemaInit>>

\* The cluster operations under callers of their choice, and the clock.
RecordNext ==
    \/ \E c \in ClusterURLs : InitLocalClusterRecord(c)
    \/ \E c \in ClusterURLs : UpdateClusterHeartbeat(c)
    \/ \E c \in ClusterURLs, maxJobs \in MaxJobsInputs,
          priorityWeighting \in PriorityWeightingInputs :
          UpdateClusterDetails(c, maxJobs, priorityWeighting)
    \/ Tick

RecordSpec == Init /\ [][RecordNext]_vars

\* ------------------------------------------------------- path submission

\* POST /task/new under clients that end their paths in any number of slashes.
SubmitNext ==
    \/ \E req \in SlashBodies, envKeys \in BOOLEAN, engineOk \in BOOLEAN,
          dbOk \in BOOLEAN : TaskNew(req, envKeys, engineOk, dbOk)
    \/ \E w \in Names, up \in BOOLEAN, dbOk \in BOOLEAN : TaskInfo(w, up, dbOk)
    \/ \E w \in Names, phase \in Phases : EngineAdvance(w, phase)
    \/ \E w \in Names : EngineReap(w)

SubmitSpec == Init /\ [][SubmitNext]_vars

\* Client.CreateODMWorkflow(config) called directly: the workflow is built
\* (a panic without credentials), then submitted under a generated name.
CreateODMWorkflow(config, engineOk) ==
    /\ nextName < MaxTasks
    /\ FreshName(nextName + 1)
    /\ LET w == nextName + 1
           answer == [NoResp EXCEPT !.op = "build", !.config = config]
       IN
       IF BuildPanics(IF config.hasCreds THEN "config" ELSE "none")
       THEN /\ resp' = answer
            /\ UNCHANGED <<engine, nextName>>
       ELSE /\ engine' = IF engineOk THEN [engine EXCEPT ![w] = "Pending"] ELSE engine
            /\ nextName' = IF engineOk THEN w ELSE nextName
            /\ resp' = [answer EXCEPT !.env = buildODMWorkflow(config),
                                      !.uuid = IF engineOk THEN w ELSE 0,
                                      !.code = IF engineOk THEN 200 ELSE 500,
                                      !.engineUp = engineOk]
    /\ UNCHANGED <<rows, now, cancelReq, jobReq, canceled, removeReq, restartReq,
                   removed, clusters, retry, watch, schemaInit>>

\* The workflow builder under its callers: the handlers and direct clients.
BuildNext ==
    \/ AdminNext
    \/ \E config \in ODMConfigs, engineOk \in BOOLEAN :
          CreateODMWorkflow(config, engineOk)

BuildSpec == Init /\ [][BuildNext]_vars

\* ------------------------------------------------------- the ODM flags

\* Number of options in the array of a request.
MaxOptions == 2

\* The JSON values of an option: the booleans, null and a number.
OptionValues == {"true", "false", "null", "8000"}

\* The options arrays a request carries, parsed: one option or more.
OptionArrays ==
    UNION {[1..n -> [name : {"dsm", "min-num-features"}, value : OptionValues]] :
              n \in 1..MaxOptions}

\* fmt.Sprintf("--%s", opt.Name), and the value argument that follows it.
Flag(name) == <<"--", name>>
FlagValue(value) == <<value>>

\* The conversion loop of POST /task/new: nil and false are left out, true
\* gives the flag alone, any other value the flag and the value.
RECURSIVE SubmitFlags(_)
SubmitFlags(options) ==
    IF options = <<>> THEN <<>>
    ELSE LET opt == Head(options) IN
         (IF opt.value \in {"null", "false"} THEN <<>>
          ELSE IF opt.value = "true" THEN <<Flag(opt.name)>>
          ELSE <<Flag(opt.name), FlagValue(opt.value)>>)
         \o SubmitFlags(Tail(options))

\* The flags POST /task/new submits for an options array: the loop's, or
\* --fast-orthophoto when it gave none.
SubmitODMFlags(options) ==
    IF SubmitFlags(options) = <<>> THEN <<Flag("fast-orthophoto")>>
    ELSE SubmitFlags(options)

\* The conversion loop of POST /task/restart: the flag of every option, and
\* the value after it unless the value is nil or true.
RECURSIVE RestartFlags(_)
RestartFlags(options) ==
    IF options = <<>> THEN <<>>
    ELSE LET opt == Head(options) IN
         (IF opt.value \in {"null", "true"} THEN <<Flag(opt.name)>>
          ELSE <<Flag(opt.name), FlagValue(opt.value)>>)
         \o RestartFlags(Tail(options))

\* POST /task/new derives the flags of an options array; request and flags
\* are kept in resp.
DeriveSubmitFlags(options) ==
    /\ resp' = [NoResp EXCEPT !.op = "submit-flags",
                              !.req.options = [set |-> TRUE, json |-> TRUE,
                                               options |-> options],
                              !.flags = SubmitODMFlags(options)]
    /\ UNCHANGED <<rows, engine, nextName, now, cancelReq, jobReq, canceled,
                   removeReq, restartReq, removed,
                   clusters, retry, watch, schemaInit>>

\* POST /task/restart derives the flags of an options array.
DeriveRestartFlags(options) ==
    /\ resp' = [NoResp EXCEPT !.op = "restart-flags",
                              !.req.options = [set |-> TRUE, json |-> TRUE,
                                               options |-> options],
                              !.flags = RestartFlags(options)]
    /\ UNCHANGED <<rows, engine, nextName, now, cancelReq, jobReq, canceled,
                   removeReq, restartReq, removed,
                   clusters, retry, watch, schemaInit>>

\* The two handlers' conversions under requests with any options array.
FlagsNext ==
    \/ \E options \in OptionArrays : DeriveSubmitFlags(options)
    \/ \E options \in OptionArrays : DeriveRestartFlags(options)

FlagsSpec == Init /\ [][FlagsNext]_vars

\* ------------------------------------------------------------------ claims

\* Both rows[w] and rows'[w] are the same task row: a row is there before and
\* after the step.
SameRow(w) == rows[w].present /\ rows'[w].present

\* C1: once started_at or completed_at of a row is set, no UpdateJobStatus call,
\* whatever its status, its order or its caller, changes the value.
C1_TimestampsNeverOverwritten ==
    [][\A w \in Names :
          SameRow(w) =>
            /\ (rows[w].started_at # 0 => rows'[w].started_at = rows[w].started_at)
            /\ (rows[w].completed_at # 0 =>
                    rows'[w].completed_at = rows[w].completed_at)]_vars

\* C1 witness: a row started at t1, completed at t2 > t1, and written "running"
\* again later on, with both timestamps still in place.
C1_Witness ==
    \E w \in Names :
        /\ rows[w].present
        /\ rows[w].job_status = "running"
        /\ rows[w].started_at # 0
        /\ rows[w].started_at < rows[w].completed_at
        /\ rows[w].completed_at < now

\* C2: for every row, started_at set implies job_status is running, completed
\* or failed.
C2_StartedImpliesStatus ==
    \A w \in Names :
        (rows[w].present /\ rows[w].started_at # 0) =>
            rows[w].job_status \in {"running", "completed", "failed"}

\* C3: for every row, completed_at set implies job_status is completed or
\* failed, and started_at is set or job_status is failed.
C3_CompletedImpliesStatus ==
    \A w \in Names :
        (rows[w].present /\ rows[w].completed_at # 0) =>
            /\ rows[w].job_status \in {"completed", "failed"}
            /\ (rows[w].started_at # 0 \/ rows[w].job_status = "failed")

\* C4: error_message is non-null only when job_status is failed.
C4_ErrorMessageOnlyWhenFailed ==
    \A w \in Names :
        (rows[w].present /\ rows[w].error_message # NULL) =>
            rows[w].job_status = "failed"

\* The edges of the internal state machine; the initial status is the one the
\* schema gives a new row.
StateMachineEdges ==
    {<<DefaultJobStatus, "running">>, <<"running", "completed">>,
     <<DefaultJobStatus, "failed">>, <<"running", "failed">>}

\* C5: the stored job_status of a task changes only along the edges of the
\* state machine; a completed or failed task never changes status again.
C5_StatusFollowsEdges ==
    [][\A w \in Names :
          (SameRow(w) /\ rows'[w].job_status # rows[w].job_status) =>
              <<rows[w].job_status, rows'[w].job_status>> \in StateMachineEdges]_vars

\* Position of a status in the lifecycle: waiting, running, terminal.
LifecycleRank(status) ==
    CASE status \in {"pending", "claimed"} -> 0
      [] status = "running" -> 1
      [] status \in {"completed", "failed"} -> 2
      [] OTHER -> 0

\* C6: the job_status values a reader sees over time never move back to an
\* earlier lifecycle state, under every interleaving of status writers.
C6_StatusMonotonic ==
    [][\A w \in Names :
          SameRow(w) =>
              LifecycleRank(rows'[w].job_status) >= LifecycleRank(rows[w].job_status)]_vars

\* C7: an info read of a task whose engine object exists in phase P writes the
\* status mapped from P into the row and returns the NodeODM code of P, with
\* started_at set once P is Running and completed_at set once P is Succeeded.
C7_InfoReconciles ==
    (resp.op = "info" /\ resp.code = 200 /\ engine[resp.uuid] # NoWf) =>
        /\ resp.status = workflowToStatusCode(engine[resp.uuid])
        /\ rows[resp.uuid].job_status = MapArgoPhaseToJobStatus(engine[resp.uuid])
        /\ (engine[resp.uuid] = "Running" => rows[resp.uuid].started_at # 0)
        /\ (engine[resp.uuid] = "Succeeded" => rows[resp.uuid].completed_at # 0)

\* C8: for a task whose row the lookup finds, an info read returns 200 with the
\* view derived from the row, whether the engine object is present or absent
\* and whether or not the engine can be reached.
C8_InfoServedFromMetadata ==
    (resp.op = "info" /\ ~resp.dbErr /\ rows[resp.uuid].present) =>
        /\ resp.code = 200
        /\ resp.status = jobStatusToStatusCode(rows[resp.uuid].job_status)

\* C8 witness: an info read answered 200 while the engine was unreachable and
\* held no object for the task.
C8_Witness ==
    /\ resp.op = "info"
    /\ resp.code = 200
    /\ ~resp.engineUp
    /\ engine[resp.uuid] = NoWf
    /\ rows[resp.uuid].present

C10_CanceledReportsCode50 ==
    (resp.op = "info" /\ resp.code = 200 /\ resp.uuid \in canceled
        /\ rows[resp.uuid].job_status = "failed") =>
        resp.status = StatusCodeCanceled

C12_SecondRemoveFails ==
    [][(resp'.op = "remove" /\ resp'.uuid \in removed) => resp'.code >= 400]_vars

\* C13: restart deletes the old engine object, then the old metadata row, then
\* submits a fresh workflow and inserts its row; so once a restart that found
\* the row has ended, with the store answering, the old uuid has no row.
C13_RestartDeletesOldRow ==
    (resp.op = "restart" /\ resp.found /\ ~resp.dbErr) =>
        ~rows[resp.uuid].present

\* C14: restart for a uuid that has no metadata row returns 404 and creates no
\* workflow and no metadata row.
C14_RestartOfMissingRow ==
    (resp.op = "restart" /\ ~resp.found /\ ~resp.dbErr) =>
        /\ resp.code = 404
        /\ \A w \in Names : w > nextName => engine[w] = NoWf /\ ~rows[w].present

\* C15: if engine submission fails during submit, no metadata row is written
\* for the task and the client receives a 500-class error.
C15_FailedSubmissionWritesNoRow ==
    [][(resp'.op = "new" /\ ~resp'.engineUp) =>
          /\ resp'.code >= 500
          /\ rows' = rows
          /\ engine' = engine]_vars

\* C15 witness: a submission the engine refused, answered 500.
C15_Witness ==
    /\ resp.op = "new"
    /\ ~resp.engineUp
    /\ resp.code = 500
    /\ \A w \in Names : ~rows[w].present

\* The requests the validation of submit rejects: unparseable options JSON, no
\* readS3Path and no zipurl, a zipurl alone that is not an s3:// prefix (an HTTP
\* zip URL among them), a readS3Path or a writeS3Path that is not an s3:// path.
C16_Invalid(req) ==
    \/ req.options.set /\ ~req.options.json
    \/ req.readS3Path = <<>> /\ req.zipurl = <<>>
    \/ req.readS3Path = <<>> /\ req.zipurl # <<>> /\ req.zipurl[1] # "s3://"
    \/ req.readS3Path # <<>> /\ req.readS3Path[1] # "s3://"
    \/ req.readS3Path # <<>> /\ req.writeS3Path # <<>> /\ req.writeS3Path[1] # "s3://"

\* C16: a submission rejected with a validation error returns 400 and creates
\* neither an engine workflow nor a metadata row.
C16_RejectedSubmissionCreatesNothing ==
    [][(resp'.op = "new" /\ (C16_Invalid(resp'.req) \/ resp'.code = 400)) =>
          /\ resp'.code = 400
          /\ engine' = engine
          /\ rows' = rows
          /\ nextName' = nextName]_vars

\* C16 witness: a submission with an HTTP zip URL, answered 400.
C16_Witness ==
    /\ resp.op = "new"
    /\ resp.code = 400
    /\ resp.req.readS3Path = <<>>
    /\ resp.req.zipurl = <<"https://", "x.zip">>
    /\ nextName = 0

C18_CancelOfMissingObject ==
    [][(cancelReq = 0 /\ resp'.op = "cancel" /\ resp'.engineUp
            /\ engine[resp'.uuid] = NoWf) =>
          /\ resp'.code = 404
          /\ rows' = rows
          /\ engine' = engine]_vars

\* C18 witness: a repeat of a successful cancel, answered 404, the row as the
\* first cancel left it.
C18_Witness ==
    /\ resp.op = "cancel"
    /\ resp.code = 404
    /\ resp.uuid \in canceled
    /\ rows[resp.uuid].present
    /\ rows[resp.uuid].job_status = "failed"

\* C19: every row created by CreateJob has job_status = queued immediately
\* after insertion.
C19_InsertedRowIsQueued ==
    [][\A w \in Names :
          (~rows[w].present /\ rows'[w].present) => rows'[w].job_status = "queued"]_vars

\* The mapping of engine phases to job statuses as specified.
C20_Mapping(phase) ==
    CASE phase = "Pending" -> "queued"
      [] phase = "Running" -> "running"
      [] phase = "Succeeded" -> "completed"
      [] phase \in {"Failed", "Error"} -> "failed"
      [] OTHER -> "queued"

\* C20: the engine-phase to job-status mapping is total: Pending maps to queued,
\* Running to running, Succeeded to completed, Failed and Error to failed, and
\* every other phase to queued.
C20_PhaseMappingAsSpecified ==
    resp.op = "map" => resp.job_status = C20_Mapping(resp.phase)

\* C21: calling UpdateJobStatus(w, s) again with the s the row already has
\* from an earlier call, the calls serialised by the row lock in any order,
\* leaves started_at and completed_at as they were after the first call.
C21_RepeatedStatusKeepsTimestamps ==
    [][\A w \in Names :
          (SameRow(w) /\ rows'[w].job_status = rows[w].job_status) =>
              /\ rows'[w].started_at = rows[w].started_at
              /\ rows'[w].completed_at = rows[w].completed_at]_vars

\* C21 witness: a row written "failed" at one time is still "failed" at a later
\* time with the timestamp of the first write.
C21_Witness ==
    \E w \in Names :
        /\ rows[w].present
        /\ rows[w].job_status = "failed"
        /\ rows[w].completed_at # 0
        /\ rows[w].completed_at < now
        /\ rows[w].error_message = "error"

\* C22: with several replicas in InitSchema and no statement failing for a
\* reason other than an object that exists, every call returns: a replica that
\* waits for the advisory lock while no other replica is inside InitSchema
\* finds the lock free.
C22_WaitingReplicaGetsLock ==
    \A r \in Replicas :
        (/\ ~schemaInit.faulted
         /\ schemaInit.pc[r] = "lock"
         /\ \A q \in Replicas \ {r} : schemaInit.pc[q] \in {"idle", "lock", "done"})
        => schemaInit.holder = 0

\* The phases WatchWorkflow's completion test names.
C23_Terminal == {"Succeeded", "Failed", "Error"}

C24_ClosedChannelReopensWatch ==
    [][(/\ watch.pc = "select"
        /\ ~watch.cancelled
        /\ engine[watch.uuid] \in {"Pending", "Running"})
       => watch'.pc \in {"select", "delay"}]_vars

\* C25: a WatchWorkflow that leaves by the cancellation case returns a workflow
\* (not nil) and the cancellation error.
C25_CancelReturnsWorkflow ==
    (watch.pc = "done" /\ watch.at = "cancelled") =>
        (watch.wf # NoWf /\ watch.err = "ctx")

\* The deadlock test of C26, on the words of the message.
C26_Deadlock(err) ==
    \E k \in 1..Len(err) : err[k] \in {"deadlock", "40P01", "40P01)"}

\* C26: retryOnDeadlock invokes fn at most maxRetries times (3 for CreateJob),
\* invokes it again only after an invocation that returned a deadlock error,
\* returns an error that is no deadlock as soon as fn returns it, and returns
\* nil only if an invocation returned nil.
C26_RetryIsBounded ==
    /\ [](/\ retry.calls <= retry.maxRetries
          /\ (retry.pc = "done" /\ retry.result = NoError) => retry.succeeded)
    /\ [][retry'.calls = retry.calls + 1 =>
             /\ retry.calls > 0 => C26_Deadlock(retry.lastErr)
             /\ (retry'.lastErr # NoError /\ ~C26_Deadlock(retry'.lastErr)) =>
                   (retry'.pc = "done" /\ retry'.result = retry'.lastErr)]_vars

\* C26 witness: a call with maxRetries = 3 has invoked fn three times, each
\* time for a deadlock, and has returned the last error.
C26_Witness ==
    /\ retry.pc = "done"
    /\ retry.maxRetries = 3
    /\ retry.calls = 3
    /\ C26_Deadlock(retry.result)

\* C27: when ctx is cancelled while retryOnDeadlock waits between two
\* attempts, it returns ctx.Err() and does not invoke fn again.
C27_CancelledWaitAborts ==
    [][(retry.pc = "wait" /\ retry.cancelled /\ retry' # retry) =>
          /\ retry'.pc = "done"
          /\ retry'.result = CtxErr
          /\ retry'.calls = retry.calls]_vars

\* C27 witness: a call cancelled during its first wait has returned ctx.Err()
\* after one invocation, with attempts to spare.
C27_Witness ==
    /\ retry.pc = "done"
    /\ retry.cancelled
    /\ retry.result = CtxErr
    /\ retry.lastErr # CtxErr
    /\ retry.calls = 1
    /\ retry.maxRetries = 3

\* C28: UpdateJobMetadata(w, m) merges m into the stored metadata: a key of m
\* has m's value afterwards, a key m does not have keeps the stored value.
C28_MetadataIsMerged ==
    [][\A w \in RowNames :
          (resp'.op = "updateMetadata" /\ resp'.uuid = w /\ SameRow(w)) =>
              \A k \in MetadataKeys :
                  rows'[w].metadata[k] =
                      IF resp'.metadata[k] # "" THEN resp'.metadata[k]
                      ELSE rows[w].metadata[k]]_vars

RECURSIVE C30_Count(_, _)
C30_Count(c, n) ==
    IF n = 0 THEN 0
    ELSE C30_Count(c, n - 1) +
         (IF /\ rows[n].present
             /\ rows[n].cluster_url = c
             /\ rows[n].job_status \in {"claimed", "running"}
          THEN 1 ELSE 0)

\* C30: the active count GetClusterCapacity(c) returns is the number of task
\* rows of cluster c whose job_status is claimed or running.
C30_CapacityCountsActiveRows ==
    (resp.op = "capacity" /\ resp.found) =>
        resp.activeJobs = C30_Count(resp.cluster, MaxJobs)

\* C30 witness: a capacity read has counted one row of a cluster that has two,
\* a running one and a completed one.
C30_Witness ==
    /\ resp.op = "capacity"
    /\ resp.found
    /\ resp.activeJobs = 1
    /\ \E w, v \in RowNames :
          /\ rows[w].present /\ rows[w].cluster_url = resp.cluster
          /\ rows[w].job_status = "running"
          /\ rows[v].present /\ rows[v].cluster_url = resp.cluster
          /\ rows[v].job_status = "completed"

\* C31 as stated: after InitLocalClusterRecord(c), whatever cluster operations
\* came before it, c has a row and the row has the original defaults.
C31_InitLeavesDefaults ==
    resp.op = "initCluster" =>
        /\ clusters[resp.cluster].present
        /\ clusters[resp.cluster].max_concurrent_jobs = 10
        /\ clusters[resp.cluster].priority_weighting = 10

\* C31 amended: after InitLocalClusterRecord(c), c has a row; a row that was
\* there is as it was, a row that was not there has the defaults (10, 10)
\* and the time of the call as last_heartbeat.
C31_InitInsertsOrKeeps ==
    [][resp'.op = "initCluster" =>
          LET c == resp'.cluster IN
          /\ clusters'[c].present
          /\ clusters[c].present => clusters'[c] = clusters[c]
          /\ ~clusters[c].present =>
                /\ clusters'[c].max_concurrent_jobs = 10
                /\ clusters'[c].priority_weighting = 10
                /\ clusters'[c].last_heartbeat = now
          /\ \A d \in ClusterURLs \ {c} : clusters'[d] = clusters[d]]_vars

\* C31 witness: InitLocalClusterRecord has been called for a cluster whose row
\* carries details and a heartbeat written earlier by UpdateClusterDetails.
C31_Witness ==
    /\ resp.op = "initCluster"
    /\ clusters[resp.cluster].present
    /\ clusters[resp.cluster].max_concurrent_jobs = 20
    /\ clusters[resp.cluster].priority_weighting = 50
    /\ clusters[resp.cluster].last_heartbeat < now

\* C32: every cluster row has max_concurrent_jobs >= 1 and priority_weighting
\* in 0..100.
C32_ClusterRowsInRange ==
    \A c \in ClusterURLs :
        clusters[c].present =>
            /\ clusters[c].max_concurrent_jobs >= 1
            /\ clusters[c].priority_weighting \in 0..100

\* C33: the read path POST /task/new stores for an accepted submission (the
\* one it passes to CreateJob) ends with exactly one "/".
C33_ReadPathHasOneTrailingSlash ==
    (resp.op = "new" /\ resp.code = 200 /\ ~resp.dbErr) =>
        LET p == ReadPath(resp.req) IN
        /\ Len(p) >= 2
        /\ p[Len(p)] = "/"
        /\ p[Len(p) - 1] # "/"

\* The names of the entries of a container's environment.
C34_Names(env) == {entry[1] : entry \in env}

\* What C34 asks of a container's environment for the configuration config.
C34_Carries(env, config) ==
    /\ {"AWS_ACCESS_KEY_ID", "AWS_SECRET_ACCESS_KEY", "AWS_DEFAULT_REGION"}
          \subseteq C34_Names(env)
    /\ ("AWS_SESSION_TOKEN" \in C34_Names(env)) <=> (config.sessionToken # "")
    /\ ("AWS_S3_ENDPOINT" \in C34_Names(env)) <=> (config.endpoint # "")

\* C34 as stated: each of the four containers of a built workflow carries the
\* three credential variables, and the token and the endpoint exactly when
\* they are present.
C34_EveryContainerCarriesCredentials ==
    (resp.op = "build" /\ resp.code # 0) =>
        \A c \in Containers : C34_Carries(resp.env[c], resp.config)

\* C34 amended: the download, upload and cleanup containers carry them; the
\* process container has no environment.
C34_RcloneContainersCarryCredentials ==
    (resp.op = "build" /\ resp.code # 0) =>
        /\ \A c \in {"download", "upload", "cleanup"} :
              C34_Carries(resp.env[c], resp.config)
        /\ resp.env["process"] = {}

\* C34 witness: a workflow has been built from credentials without a session
\* token and with a custom endpoint.
C34_Witness ==
    /\ resp.op = "build"
    /\ resp.code = 200
    /\ resp.config.sessionToken = ""
    /\ resp.config.endpoint # ""
    /\ <<"AWS_S3_ENDPOINT", resp.config.endpoint>> \in resp.env["upload"]

C36_ReturnedCallHoldsNoLock ==
    \A r \in Replicas : schemaInit.pc[r] = "done" => schemaInit.holder # r

\* C37: a call of WatchWorkflow has at most one engine watch open at a time,
\* and every watcher it opened is stopped when it returns.
C37_AtMostOneWatcherOpen ==
    /\ watch.open <= 1
    /\ watch.pc = "done" => watch.open = 0

\* C38: a restart that found the task's row and does not answer success (the
\* fresh workflow was not submitted) leaves the original task intact: the
\* engine objects and the metadata rows are as they were before it.
C38_FailedRestartLeavesTask ==
    [][(/\ restartReq # NoRestart
        /\ restartReq.found
        /\ resp'.op = "restart"
        /\ resp'.code # 200) =>
           /\ engine'[restartReq.uuid] = engine[restartReq.uuid]
           /\ rows'[restartReq.uuid] = rows[restartReq.uuid]]_vars

\* C39: every row with both timestamps set has completed_at >= started_at
\* (so the processingTime info computes from them is not negative), after any
\* sequence of status updates.
C39_CompletedNotBeforeStarted ==
    \A w \in RowNames :
        (rows[w].present /\ rows[w].started_at # 0 /\ rows[w].completed_at # 0)
        => rows[w].completed_at >= rows[w].started_at

\* C40: for the same options array, restart derives exactly the flags submit
\* derives.
C40_RestartFlagsEqualSubmitFlags ==
    /\ resp.op = "restart-flags" =>
           resp.flags = SubmitODMFlags(resp.req.options.options)
    /\ resp.op = "submit-flags" =>
           resp.flags = RestartFlags(resp.req.options.options)
====
